---- MODULE Spec2Model ----
(***************************************************************************)
(* A model of the limit-up streak tracker: the limit classifier and the    *)
(* streak engine (limit_calculator.py), the rate-aware provider fetch      *)
(* (data_fetcher.py), the storage (database.py) and the ingestion          *)
(* orchestrators (backfill_manager.py, batch_processor.py).                *)
(*                                                                         *)
(* Numbers.  Prices are integers in cents (1/100 yuan), a limit ratio is   *)
(* an integer number of percent (0.10 is 10) and LIMIT_TOLERANCE is in     *)
(* thousandths (0.001 is 1).  Every comparison the code makes on floats    *)
(* is made here on the exact rational values, scaled to integers.          *)
(* NaN is the missing value of pandas.                                     *)
(***************************************************************************)
EXTENDS Integers, Sequences, FiniteSets, Bags, TLC

VARIABLES
    daily_market_data,     \* table daily_market_data: a bag of bar rows
    limit_analysis_result, \* table limit_analysis_result: a bag of result rows
    fetch_progress,        \* table fetch_progress: task_id -> [start_date, end_date, status]
    pc,            \* where the running orchestrator stands ("idle": none runs)
    run_kind,      \* "manager" | "resume" | "full_backfill" | "mvp" | "none"
    task_id,       \* BackfillManager.task_id
    start_date,    \* the run's date range
    end_date,
    batch_size,
    stocks,        \* stocks['code'].tolist(), <<>> before the universe is fetched
    batch_idx,
    batch_data,    \* the frame the last fetch returned
    rate_limited,  \* the flag the last fetch returned
    batch_results, \* the frame calculate_batch_chain returned for batch_data
    success_count,
    fail_count,
    mvp_cfg,       \* run_mvp_pipeline: [limit, by_date] (MVP_LIMIT_STOCKS, TUSHARE_USE_BY_DATE_MODE)
    has_limit_results, \* run_mvp_pipeline: whether limit_results has been assigned
    run_called,    \* history: provider calls made since the run started
    run_batches,   \* history: the batch indices fetched since the run started
    raised_batches, \* history: the batch indices whose _process_batch raised
    rate_reported, \* history: whether a fetch of the run returned rate_limited
    halted,        \* history: "none" | "rate" | "interrupt" | "unhandled" | "universe"
    outcome,       \* history: "none" | "returned" | "raised", how the last run ended
    steps,         \* history: what was done with batch_data since it was fetched
    resume_found,  \* history: the status resume_interrupted_task read ("unknown": no row)
    runs,          \* history: the number of runs started
    fx_codes,     \* fetch run: stock_codes, the instruments pending
    fx_max_calls, \* fetch run: the max_calls argument (0: not given)
    fx_enable,    \* fetch run: rate_limit_enable
    fx_api,       \* fetch run: whether the provider client could be built
    fx_resp,      \* fetch run: what the provider does on the call for each instrument
    fx_ret,       \* fetch run: what fetch_market_data_tushare returned
    fx_pc,        \* fetch run: "ready" | "done"
    cc_input,     \* streak engine run: the market_data frame handed to it
    cc_meta,      \* streak engine run: limit_ratio of each code (stock_meta)
    cc_out,       \* streak engine run: the frame calculate_batch_chain returned
    cc_pc,        \* streak engine run: "ready" | "done"
    cl_in,        \* classifier run: [open, high, low, close, pre_close, limit_ratio]
    cl_out,       \* classifier run: what the three predicates and the engine returned
    cl_pc         \* classifier run: "ready" | "done"

ccVars == <<cc_input, cc_meta, cc_out, cc_pc>>

fxVars == <<fx_codes, fx_max_calls, fx_enable, fx_api, fx_resp, fx_ret, fx_pc>>

dbVars == <<daily_market_data, limit_analysis_result, fetch_progress>>

runVars == <<pc, run_kind, task_id, start_date, end_date, batch_size, stocks,
             batch_idx, batch_data, rate_limited, batch_results, success_count,
             fail_count, mvp_cfg, has_limit_results>>

histVars == <<run_called, run_batches, raised_batches, rate_reported, halted,
              outcome, steps, resume_found, runs>>

clVars == <<cl_in, cl_out, cl_pc>>

vars == <<dbVars, runVars, histVars, ccVars, fxVars, clVars>>

NaN == 0 - 1

LIMIT_TOLERANCE == 1

isna(x) == x = NaN

Abs(x) == IF x < 0 THEN 0 - x ELSE x

(***************************************************************************)
(* limit_price = pre_close * (1 + limit_ratio), in units of 1/10000 yuan.  *)
(***************************************************************************)
limit_price(pre_close, limit_ratio) == pre_close * (100 + limit_ratio)

\* is_limit_up without the tolerance: close >= limit_price
is_limit_up_exact(close, pre_close, limit_ratio) ==
    IF isna(close) \/ isna(pre_close) \/ pre_close <= 0
    THEN FALSE
    ELSE close * 100 >= limit_price(pre_close, limit_ratio)

\* is_limit_up that also wants the close no higher than the tolerance above
\* the limit price
is_limit_up_band(close, pre_close, limit_ratio) ==
    IF isna(close) \/ isna(pre_close) \/ pre_close <= 0
    THEN FALSE
    ELSE /\ close * 100 * 1000 >=
                limit_price(pre_close, limit_ratio) * (1000 - LIMIT_TOLERANCE)
         /\ close * 100 * 1000 <=
                limit_price(pre_close, limit_ratio) * (1000 + LIMIT_TOLERANCE)

\* close >= limit_price * (1 - LIMIT_TOLERANCE)
is_limit_up(close, pre_close, limit_ratio) ==
    IF isna(close) \/ isna(pre_close) \/ pre_close <= 0
    THEN FALSE
    ELSE close * 100 * 1000 >=
             limit_price(pre_close, limit_ratio) * (1000 - LIMIT_TOLERANCE)

\* is_yizi_board that looks at the open and the close only
is_yizi_board_open_close(open_price, high, low, close, pre_close, limit_ratio) ==
    IF isna(open_price) \/ isna(high) \/ isna(low) \/ isna(close)
    THEN FALSE
    ELSE LET lp == limit_price(pre_close, limit_ratio)
         IN  \A p \in {open_price, close} :
                 Abs(p * 100 - lp) * 1000 <= lp * LIMIT_TOLERANCE

\* all(abs(p - limit_price) <= limit_price * LIMIT_TOLERANCE for p in prices)
is_yizi_board(open_price, high, low, close, pre_close, limit_ratio) ==
    IF isna(open_price) \/ isna(high) \/ isna(low) \/ isna(close)
    THEN FALSE
    ELSE LET lp == limit_price(pre_close, limit_ratio)
         IN  \A p \in {open_price, high, low, close} :
                 Abs(p * 100 - lp) * 1000 <= lp * LIMIT_TOLERANCE

(***************************************************************************)
(* floor(L * L / 10^7) * LIMIT_TOLERANCE for 0 <= L, computed on the       *)
(* decimal halves of L so that no intermediate value leaves 32 bits.       *)
(***************************************************************************)
SquareTolerance(L) ==
    LET q == L \div 10000
        r == L % 10000
    IN  LIMIT_TOLERANCE *
            (10 * q * q + ((2 * q * r + ((r * r) \div 10000)) \div 1000))

(***************************************************************************)
(* p >= limit_price * (1 - tolerance) with tolerance = limit_price *       *)
(* LIMIT_TOLERANCE, the product the code subtracts from 1: with L the      *)
(* limit price in 1/10000 yuan, p/100 >= (L/10^4) * (1 - L/10^7), that is  *)
(* L*L/10^7 >= L - 100*p.                                                  *)
(***************************************************************************)
ReachesFriedThreshold(p, lp) ==
    IF lp - 100 * p <= 0 THEN TRUE
    ELSE SquareTolerance(Abs(lp)) >= lp - 100 * p

is_fried_board(high, close, pre_close, limit_ratio) ==
    IF isna(high) \/ isna(close) \/ isna(pre_close)
    THEN FALSE
    ELSE LET lp == limit_price(pre_close, limit_ratio)
             touched_limit == ReachesFriedThreshold(high, lp)
             not_closed_limit == ~ReachesFriedThreshold(close, lp)
         IN  touched_limit /\ not_closed_limit

(***************************************************************************)
(* Frames.  A DataFrame is a sequence of rows; a row of market data is a   *)
(* record [date, code, open, high, low, close, pre_close] (volume and      *)
(* amount are carried by the code and read by nothing modelled here).      *)
(***************************************************************************)
Bar(date, code, o, h, l, c, p) ==
    [date |-> date, code |-> code, open |-> o, high |-> h, low |-> l,
     close |-> c, pre_close |-> p]

SelectSeqByCode(df, code) == SelectSeq(df, LAMBDA r : r.code = code)

RECURSIVE InsertByDate(_, _)
InsertByDate(sorted, row) ==
    IF sorted = <<>> THEN <<row>>
    ELSE IF Head(sorted).date <= row.date
         THEN <<Head(sorted)>> \o InsertByDate(Tail(sorted), row)
         ELSE <<row>> \o sorted

\* sort_values_date that leaves the rows in the order given
sort_values_date_asis(df) == df

\* df.sort_values('date'): ascending by date (the dates of one instrument
\* are distinct, so the order among equal keys does not arise).
RECURSIVE sort_values_date(_)
sort_values_date(df) ==
    IF df = <<>> THEN <<>>
    ELSE InsertByDate(sort_values_date(Tail(df)), Head(df))

ResultRow(date, code, limit_status, chain_height, is_fried, board_type) ==
    [date |-> date, code |-> code, limit_status |-> limit_status,
     chain_height |-> chain_height, is_fried |-> is_fried,
     board_type |-> board_type]

\* ChainRow with a counter that a bar which is not limit-up leaves as it was
ChainRowNoReset(chain_height, row, code, limit_ratio) ==
    IF isna(row.close) \/ isna(row.pre_close)
    THEN [out |-> ResultRow(row.date, code, 0, 0, 0, "normal"), chain_height |-> 0]
    ELSE IF is_limit_up(row.close, row.pre_close, limit_ratio)
    THEN [out |-> ResultRow(row.date, code, 1, chain_height + 1, 0, "normal"),
          chain_height |-> chain_height + 1]
    ELSE [out |-> ResultRow(row.date, code, 0, 0, 0, "normal"),
          chain_height |-> chain_height]

\* ChainRow that flags a fried bar and leaves its board_type normal
ChainRowFriedUntyped(chain_height, row, code, limit_ratio) ==
    IF isna(row.close) \/ isna(row.pre_close)
    THEN [out |-> ResultRow(row.date, code, 0, 0, 0, "normal"), chain_height |-> 0]
    ELSE IF is_limit_up(row.close, row.pre_close, limit_ratio)
    THEN [out |-> ResultRow(row.date, code, 1, chain_height + 1, 0,
                     IF is_yizi_board(row.open, row.high, row.low, row.close,
                                      row.pre_close, limit_ratio)
                     THEN "yizi" ELSE "normal"),
          chain_height |-> chain_height + 1]
    ELSE LET fried == is_fried_board(row.high, row.close, row.pre_close, limit_ratio)
         IN  [out |-> ResultRow(row.date, code, 0, 0,
                          IF fried THEN 1 ELSE 0, "normal"),
              chain_height |-> 0]

\* ChainRow with a counter that a bar without close or previous close leaves
\* as it was
ChainRowKeepsOnMissing(chain_height, row, code, limit_ratio) ==
    IF isna(row.close) \/ isna(row.pre_close)
    THEN [out |-> ResultRow(row.date, code, 0, 0, 0, "normal"),
          chain_height |-> chain_height]
    ELSE IF is_limit_up(row.close, row.pre_close, limit_ratio)
    THEN [out |-> ResultRow(row.date, code, 1, chain_height + 1, 0,
                     IF is_yizi_board(row.open, row.high, row.low, row.close,
                                      row.pre_close, limit_ratio)
                     THEN "yizi" ELSE "normal"),
          chain_height |-> chain_height + 1]
    ELSE LET fried == is_fried_board(row.high, row.close, row.pre_close, limit_ratio)
         IN  [out |-> ResultRow(row.date, code, 0, 0,
                          IF fried THEN 1 ELSE 0,
                          IF fried THEN "fried" ELSE "normal"),
              chain_height |-> 0]

(***************************************************************************)
(* One iteration of the loop "for idx in range(len(df))" of                *)
(* calculate_single_stock_chain: the counter before the row, the row, and  *)
(* the result row and counter after it.                                    *)
(***************************************************************************)
ChainRow(chain_height, row, code, limit_ratio) ==
    IF isna(row.close) \/ isna(row.pre_close)
    THEN [out |-> ResultRow(row.date, code, 0, 0, 0, "normal"), chain_height |-> 0]
    ELSE IF is_limit_up(row.close, row.pre_close, limit_ratio)
    THEN [out |-> ResultRow(row.date, code, 1, chain_height + 1, 0,
                     IF is_yizi_board(row.open, row.high, row.low, row.close,
                                      row.pre_close, limit_ratio)
                     THEN "yizi" ELSE "normal"),
          chain_height |-> chain_height + 1]
    ELSE LET fried == is_fried_board(row.high, row.close, row.pre_close, limit_ratio)
         IN  [out |-> ResultRow(row.date, code, 0, 0,
                          IF fried THEN 1 ELSE 0,
                          IF fried THEN "fried" ELSE "normal"),
              chain_height |-> 0]

RECURSIVE ChainLoop(_, _, _, _)
ChainLoop(df, chain_height, code, limit_ratio) ==
    IF df = <<>> THEN <<>>
    ELSE LET step == ChainRow(chain_height, Head(df), code, limit_ratio)
         IN  <<step.out>> \o ChainLoop(Tail(df), step.chain_height, code, limit_ratio)

calculate_single_stock_chain(df, code, limit_ratio) ==
    IF df = <<>> THEN <<>>
    ELSE ChainLoop(sort_values_date(df), 0, code, limit_ratio)

\* limit_ratio_map.get(code, config.LIMIT_RATIO['MAIN'])
LimitRatioOf(stock_meta, code) ==
    IF code \in DOMAIN stock_meta THEN stock_meta[code] ELSE 10

CodesOf(df) == {df[i].code : i \in 1..Len(df)}

\* the groups of market_data.groupby('code'), taken in ascending code order
RECURSIVE GroupLoop(_, _, _)
GroupLoop(market_data, codes, stock_meta) ==
    IF codes = {} THEN <<>>
    ELSE LET code == CHOOSE c \in codes : \A d \in codes : c <= d
         IN  calculate_single_stock_chain(SelectSeqByCode(market_data, code), code,
                                          LimitRatioOf(stock_meta, code))
             \o GroupLoop(market_data, codes \ {code}, stock_meta)

calculate_batch_chain(market_data, stock_meta) ==
    GroupLoop(market_data, CodesOf(market_data), stock_meta)

Min(a, b) == IF a <= b THEN a ELSE b

(***************************************************************************)
(* Storage.  A table is a bag of rows (the autoincrement id apart): the    *)
(* bag counts how often a row is stored, so that it is the UNIQUE(date,    *)
(* code) constraint of the INSERT, and nothing else, that keeps keys       *)
(* single.                                                                 *)
(***************************************************************************)
KeyOf(r) == <<r.date, r.code>>

Keys(table) == {KeyOf(r) : r \in BagToSet(table)}

RowCount(table, key) ==
    LET same == {r \in BagToSet(table) : KeyOf(r) = key}
        RECURSIVE Sum(_)
        Sum(S) == IF S = {} THEN 0
                  ELSE LET r == CHOOSE x \in S : TRUE
                       IN  table[r] + Sum(S \ {r})
    IN  Sum(same)

RECURSIVE FrameToBag(_)
FrameToBag(df) ==
    IF df = <<>> THEN EmptyBag
    ELSE SetToBag({Head(df)}) (+) FrameToBag(Tail(df))

\* InsertRows into a table that has no UNIQUE(date, code)
InsertRowsNoUnique(table, rows) ==
    [table |-> table (+) FrameToBag(rows), raised |-> FALSE]

\* one INSERT of the rows of a frame into a table with UNIQUE(date, code):
\* a key already stored, or given twice, fails the whole statement
InsertRows(table, rows) ==
    LET conflict ==
            \/ \E i \in 1..Len(rows) : KeyOf(rows[i]) \in Keys(table)
            \/ \E i, j \in 1..Len(rows) : i # j /\ KeyOf(rows[i]) = KeyOf(rows[j])
    IN  IF conflict
        THEN [table |-> table, raised |-> TRUE]
        ELSE [table |-> table (+) FrameToBag(rows), raised |-> FALSE]

sqlite_safe_chunk == 2

\* the loop "for start in range(0, total_rows, chunk_size)" of
\* save_daily_data from row start on: each chunk is one INSERT, committed on
\* its own; the first chunk that fails ends the loop with the exception
RECURSIVE SaveChunks(_, _, _)
SaveChunks(table, data_df, start) ==
    IF start > Len(data_df) THEN [table |-> table, raised |-> FALSE]
    ELSE LET end == Min(start + sqlite_safe_chunk - 1, Len(data_df))
             ins == InsertRows(table, SubSeq(data_df, start, end))
         IN  IF ins.raised THEN [table |-> table, raised |-> TRUE]
             ELSE SaveChunks(ins.table, data_df, end + 1)

save_daily_data(table, data_df) == SaveChunks(table, data_df, 1)

\* to_sql(if_exists='append') in one transaction, rolled back on an error
save_limit_results(table, results_df) ==
    IF results_df = <<>> THEN [table |-> table, raised |-> FALSE]
    ELSE InsertRows(table, results_df)

DATA_PRUNE_BEFORE_DATE == 2

\* _prune_table: DELETE ... WHERE date < prune_before
prune_table(table) ==
    LET keep == {r \in BagToSet(table) : r.date >= DATA_PRUNE_BEFORE_DATE}
    IN  [r \in keep |-> table[r]]

(***************************************************************************)
(* The provider.  pro.daily(ts_code, start_date, end_date) answers with    *)
(* the instrument's bars of the range, newest first; what it answers for   *)
(* a (code, date) is fixed.  A call either returns rows, returns nothing   *)
(* usable ("empty"), or raises ("error").                                  *)
(***************************************************************************)
Outcomes == {"rows", "empty", "error"}

MarketPrices(code, date) ==
    CASE code % 3 = 1 -> <<1000, 1100, 1000, 1100, 1000>>
      [] code % 3 = 2 -> IF date % 2 = 0
                         THEN <<1100, 1100, 1100, 1100, 1000>>
                         ELSE <<1000, 1100, 1000, 1050, 1000>>
      [] OTHER        -> IF date = 1
                         THEN <<1000, 1020, 990, NaN, 1000>>
                         ELSE <<1000, 1200, 1000, 1200, 1000>>

MarketBar(code, date) ==
    LET p == MarketPrices(code, date)
    IN  Bar(date, code, p[1], p[2], p[3], p[4], p[5])

pro_daily(code, date_from, date_to) ==
    IF date_to < date_from THEN <<>>
    ELSE [i \in 1..(date_to - date_from + 1) |-> MarketBar(code, date_to + 1 - i)]

TUSHARE_MAX_CALLS_PER_MIN == 1

\* int(max_calls or getattr(config, "TUSHARE_MAX_CALLS_PER_MIN", 50))
EffectiveMaxCalls(max_calls) ==
    IF max_calls = 0 THEN TUSHARE_MAX_CALLS_PER_MIN ELSE max_calls

\* FetchLoop with the budget test "call_count > max_calls": one call late
RECURSIVE FetchLoopLate(_, _, _, _, _, _, _, _, _, _)
FetchLoopLate(stock_codes, resp, idx, call_count, all_data, called, max_calls, rate_limit_enable, date_from, date_to) ==
    IF idx > Len(stock_codes)
    THEN [data |-> all_data, rate_limited |-> FALSE,
          call_count |-> call_count, called |-> called]
    ELSE IF rate_limit_enable /\ call_count > max_calls
    THEN [data |-> all_data, rate_limited |-> TRUE,
          call_count |-> call_count, called |-> called]
    ELSE FetchLoopLate(stock_codes, resp, idx + 1,
                       IF resp[idx] = "error" THEN call_count ELSE call_count + 1,
                       IF resp[idx] = "rows"
                       THEN all_data \o pro_daily(stock_codes[idx], date_from, date_to)
                       ELSE all_data,
                       Append(called, stock_codes[idx]), max_calls,
                       rate_limit_enable, date_from, date_to)

\* FetchLoop without the try around pro.daily: the first provider exception
\* ends the loop
RECURSIVE FetchLoopStopsOnError(_, _, _, _, _, _, _, _, _, _)
FetchLoopStopsOnError(stock_codes, resp, idx, call_count, all_data, called, max_calls, rate_limit_enable, date_from, date_to) ==
    IF idx > Len(stock_codes)
    THEN [data |-> all_data, rate_limited |-> FALSE,
          call_count |-> call_count, called |-> called]
    ELSE IF rate_limit_enable /\ call_count >= max_calls
    THEN [data |-> all_data, rate_limited |-> TRUE,
          call_count |-> call_count, called |-> called]
    ELSE IF resp[idx] = "error"
    THEN [data |-> all_data, rate_limited |-> FALSE,
          call_count |-> call_count, called |-> Append(called, stock_codes[idx])]
    ELSE FetchLoopStopsOnError(stock_codes, resp, idx + 1, call_count + 1,
                       IF resp[idx] = "rows"
                       THEN all_data \o pro_daily(stock_codes[idx], date_from, date_to)
                       ELSE all_data,
                       Append(called, stock_codes[idx]), max_calls,
                       rate_limit_enable, date_from, date_to)

(***************************************************************************)
(* The loop "for idx, code in enumerate(stock_codes, 1)" of                *)
(* fetch_market_data_tushare from position idx on.  called lists the       *)
(* instruments pro.daily was invoked for, in order.                        *)
(***************************************************************************)
RECURSIVE FetchLoop(_, _, _, _, _, _, _, _, _, _)
FetchLoop(stock_codes, resp, idx, call_count, all_data, called, max_calls, rate_limit_enable, date_from, date_to) ==
    IF idx > Len(stock_codes)
    THEN [data |-> all_data, rate_limited |-> FALSE,
          call_count |-> call_count, called |-> called]
    ELSE IF rate_limit_enable /\ call_count >= max_calls
    THEN [data |-> all_data, rate_limited |-> TRUE,
          call_count |-> call_count, called |-> called]
    ELSE LET code == stock_codes[idx]
         IN  CASE resp[idx] = "error" ->
                    FetchLoop(stock_codes, resp, idx + 1, call_count, all_data,
                              Append(called, code), max_calls, rate_limit_enable,
                              date_from, date_to)
               [] resp[idx] = "empty" ->
                    FetchLoop(stock_codes, resp, idx + 1, call_count + 1, all_data,
                              Append(called, code), max_calls, rate_limit_enable,
                              date_from, date_to)
               [] OTHER ->
                    FetchLoop(stock_codes, resp, idx + 1, call_count + 1,
                              all_data \o pro_daily(code, date_from, date_to),
                              Append(called, code), max_calls, rate_limit_enable,
                              date_from, date_to)

fetch_market_data_tushare(stock_codes, resp, api_ok, date_from, date_to, max_calls, rate_limit_enable) ==
    IF ~api_ok
    THEN [data |-> <<>>, rate_limited |-> FALSE, call_count |-> 0, called |-> <<>>]
    ELSE FetchLoop(stock_codes, resp, 1, 0, <<>>, <<>>,
                   EffectiveMaxCalls(max_calls), rate_limit_enable,
                   date_from, date_to)

NoFetch == [data |-> <<>>, rate_limited |-> FALSE, call_count |-> 0, called |-> <<>>]

FetchIdle ==
    /\ fx_codes = <<>>
    /\ fx_max_calls = 0
    /\ fx_enable = TRUE
    /\ fx_api = TRUE
    /\ fx_resp = <<>>
    /\ fx_ret = NoFetch
    /\ fx_pc = "idle"

(***************************************************************************)
(* The orchestrators over one storage.  Spec runs them one after another   *)
(* (a single ingestion process at a time), at most MaxRuns runs, each over *)
(* a date range within 1..MaxDate and a universe of NumStocks instruments  *)
(* cut into batches of at most MaxBatchSize.  The configuration is scaled  *)
(* to these sizes: a budget of one call per fetch, DATA_PRUNE_BEFORE_DATE  *)
(* at date 2, INSERT chunks of two rows.                                   *)
(***************************************************************************)
MaxRuns == 2

MaxDate == 2

NumStocks == 3

MaxBatchSize == 2

BACKFILL_RATE_LIMIT_CALLS_PER_MIN == 1

BACKFILL_RATE_LIMIT_ENABLE == TRUE

\* get_stock_list: the universe, and the limit_ratio it gives each code
Universe == [i \in 1..NumStocks |-> i]

stock_limit_ratio(code) == IF code % 3 = 0 THEN 20 ELSE 10

stock_meta(codes) == [c \in {codes[i] : i \in 1..Len(codes)} |-> stock_limit_ratio(c)]

\* total_batches by a division that rounds down
total_batches_floor(stock_codes, size) == Len(stock_codes) \div size

\* (len(stock_codes) + batch_size - 1) // batch_size
total_batches(stock_codes, size) == (Len(stock_codes) + size - 1) \div size

\* stock_codes[batch_idx * batch_size : min((batch_idx + 1) * batch_size, len)]
batch_codes(stock_codes, idx, size) ==
    SubSeq(stock_codes, idx * size + 1, Min((idx + 1) * size, Len(stock_codes)))

NoMvp == [limit |-> 0, by_date |-> FALSE]

MainIdle ==
    /\ daily_market_data = EmptyBag
    /\ limit_analysis_result = EmptyBag
    /\ fetch_progress = <<>>
    /\ pc = "idle"
    /\ run_kind = "none"
    /\ task_id = 0
    /\ start_date = 1
    /\ end_date = 1
    /\ batch_size = 1
    /\ stocks = <<>>
    /\ batch_idx = 0
    /\ batch_data = <<>>
    /\ rate_limited = FALSE
    /\ batch_results = <<>>
    /\ success_count = 0
    /\ fail_count = 0
    /\ mvp_cfg = NoMvp
    /\ has_limit_results = FALSE
    /\ run_called = 0
    /\ run_batches = {}
    /\ raised_batches = {}
    /\ rate_reported = FALSE
    /\ halted = "none"
    /\ outcome = "none"
    /\ steps = <<>>
    /\ resume_found = "none"
    /\ runs = 0

ChainIdle ==
    /\ cc_input = <<>>
    /\ cc_meta = <<>>
    /\ cc_out = <<>>
    /\ cc_pc = "idle"

NoClassify == [limit_up |-> FALSE, yizi |-> FALSE, fried |-> FALSE, rows |-> <<>>]

ClassifyIdle ==
    /\ cl_in = [open |-> NaN, high |-> NaN, low |-> NaN, close |-> NaN,
                pre_close |-> NaN, limit_ratio |-> 10]
    /\ cl_out = NoClassify
    /\ cl_pc = "idle"

Init == MainIdle /\ ChainIdle /\ FetchIdle /\ ClassifyIdle

\* what every run starts from: the variables of a fresh invocation
BeginRun(kind, tid, sd, ed, size, cfg, found) ==
    /\ run_kind' = kind
    /\ task_id' = tid
    /\ start_date' = sd
    /\ end_date' = ed
    /\ batch_size' = size
    /\ mvp_cfg' = cfg
    /\ resume_found' = found
    /\ runs' = runs + 1
    /\ stocks' = <<>>
    /\ batch_idx' = 0
    /\ batch_data' = <<>>
    /\ rate_limited' = FALSE
    /\ batch_results' = <<>>
    /\ success_count' = 0
    /\ fail_count' = 0
    /\ has_limit_results' = FALSE
    /\ run_called' = 0
    /\ run_batches' = {}
    /\ raised_batches' = {}
    /\ rate_reported' = FALSE
    /\ halted' = "none"
    /\ steps' = <<>>

\* the run is over: it returned to its caller, or an exception left it
EndRun(how) ==
    /\ pc' = "idle"
    /\ outcome' = how

DateRanges == {r \in (1..MaxDate) \X (1..MaxDate) : r[1] <= r[2]}

\* BackfillManager(start_date, end_date, batch_size).run() under a fresh
\* task id (the uuid of __init__)
StartManager ==
    /\ pc = "idle" /\ runs < MaxRuns
    /\ \E r \in DateRanges, size \in 1..MaxBatchSize :
          BeginRun("manager", runs + 1, r[1], r[2], size, NoMvp, "none")
    /\ pc' = "init_db"
    /\ outcome' = "none"
    /\ UNCHANGED <<dbVars, ccVars, fxVars, clVars>>

\* resume_skips without the test of the completed status
resume_skips_unknown(status) == status = "unknown"

\* if task.empty: return / if task_info['status'] == 'completed': return
resume_skips(status) == status \in {"unknown", "completed"}

\* resume_interrupted_task(task_id): look the task up; return if it is
\* unknown or completed, else run a BackfillManager (of the configured batch
\* size) over the task's dates under the same id
StartResume ==
    /\ pc = "idle" /\ runs < MaxRuns
    /\ \E tid \in 1..MaxRuns, size \in 1..MaxBatchSize :
          LET known == tid \in DOMAIN fetch_progress
              status == IF known THEN fetch_progress[tid].status ELSE "unknown"
          IN  IF resume_skips(status)
              THEN /\ BeginRun("resume", tid, 1, 1, size, NoMvp, status)
                   /\ EndRun("returned")
              ELSE /\ BeginRun("resume", tid,
                               IF known THEN fetch_progress[tid].start_date ELSE 1,
                               IF known THEN fetch_progress[tid].end_date ELSE 1,
                               size, NoMvp, status)
                   /\ outcome' = "none"
                   /\ pc' = "init_db"
    /\ UNCHANGED <<dbVars, ccVars, fxVars, clVars>>

\* the variables a run sets when it starts and never changes
cfgVars == <<run_kind, task_id, start_date, end_date, batch_size, mvp_cfg,
             resume_found, runs>>

\* the variables of the batch in hand
batchVars == <<batch_idx, batch_data, rate_limited, batch_results>>

countVars == <<success_count, fail_count>>

callVars == <<run_called, run_batches, raised_batches, rate_reported>>

\* database.init_database(): the tables exist from here on, and rows dated
\* before DATA_PRUNE_BEFORE_DATE are deleted from both data tables
InitDatabase ==
    /\ pc = "init_db"
    /\ daily_market_data' = prune_table(daily_market_data)
    /\ limit_analysis_result' = prune_table(limit_analysis_result)
    /\ pc' = IF run_kind \in {"manager", "resume"} THEN "create_task" ELSE "get_stocks"
    /\ UNCHANGED <<fetch_progress, cfgVars, stocks, batchVars, countVars, has_limit_results,
                   callVars, halted, outcome, steps, ccVars, fxVars, clVars>>

\* _create_task_record: INSERT INTO fetch_progress; task_id is the PRIMARY
\* KEY, so a second row for the same id raises out of run()
CreateTaskRecord ==
    /\ pc = "create_task"
    /\ IF task_id \in DOMAIN fetch_progress
       THEN /\ EndRun("raised")
            /\ UNCHANGED fetch_progress
       ELSE /\ fetch_progress' =
                  [t \in DOMAIN fetch_progress \cup {task_id} |->
                      IF t = task_id
                      THEN [start_date |-> start_date, end_date |-> end_date,
                            status |-> "pending"]
                      ELSE fetch_progress[t]]
            /\ pc' = "get_stocks"
            /\ UNCHANGED outcome
    /\ UNCHANGED <<daily_market_data, limit_analysis_result, cfgVars, stocks,
                   batchVars, countVars, has_limit_results, callVars, halted, steps,
                   ccVars, fxVars, clVars>>

\* update_fetch_progress: UPDATE ... WHERE task_id = ? (no row: no change)
update_fetch_progress(table, tid, status) ==
    [t \in DOMAIN table |->
        IF t = tid THEN [table[t] EXCEPT !.status = status] ELSE table[t]]

\* ManagerGetStocks without "if stocks.empty": the run goes on with no stocks
ManagerGetStocksGoesOn ==
    /\ pc = "get_stocks" /\ run_kind \in {"manager", "resume"}
    /\ \/ /\ stocks' = <<>>
          /\ halted' = "universe"
       \/ /\ stocks' = Universe
          /\ UNCHANGED halted
    /\ pc' = "set_running"
    /\ UNCHANGED <<dbVars, cfgVars, batchVars, countVars, has_limit_results,
                   callVars, outcome, steps, ccVars, fxVars, clVars>>

\* BackfillManager.run: stocks = get_stock_list(); an empty list marks the
\* task failed and returns, else save_stock_meta and go on
ManagerGetStocks ==
    /\ pc = "get_stocks" /\ run_kind \in {"manager", "resume"}
    /\ \/ /\ stocks' = <<>>
          /\ fetch_progress' = update_fetch_progress(fetch_progress, task_id, "failed")
          /\ halted' = "universe"
          /\ EndRun("returned")
       \/ /\ stocks' = Universe
          /\ pc' = "set_running"
          /\ UNCHANGED <<fetch_progress, halted, outcome>>
    /\ UNCHANGED <<daily_market_data, limit_analysis_result, cfgVars, batchVars,
                   countVars, has_limit_results, callVars, steps, ccVars, fxVars, clVars>>

\* ManagerSetRunning without the status update
ManagerSetRunningSkipped ==
    /\ pc = "set_running"
    /\ pc' = IF total_batches(stocks, batch_size) > 0 THEN "fetch" ELSE "finish"
    /\ UNCHANGED <<dbVars, cfgVars, stocks, batchVars, countVars,
                   has_limit_results, callVars, halted, outcome, steps, ccVars,
                   fxVars, clVars>>

\* self._update_task_status('running'), then the batch loop begins
ManagerSetRunning ==
    /\ pc = "set_running"
    /\ fetch_progress' = update_fetch_progress(fetch_progress, task_id, "running")
    /\ pc' = IF total_batches(stocks, batch_size) > 0 THEN "fetch" ELSE "finish"
    /\ UNCHANGED <<daily_market_data, limit_analysis_result, cfgVars, stocks,
                   batchVars, countVars, has_limit_results, callVars, halted, outcome,
                   steps, ccVars, fxVars, clVars>>

\* one fetch_market_data_tushare over the instruments codes, as the batch at
\* batch_idx: its effect on the run's variables
FetchBatch(codes, max_calls, enable) ==
    \E resp \in [1..Len(codes) -> Outcomes] :
        LET ret == fetch_market_data_tushare(codes, resp, TRUE, start_date,
                                             end_date, max_calls, enable)
        IN  /\ batch_data' = ret.data
            /\ rate_limited' = ret.rate_limited
            /\ run_called' = run_called + Len(ret.called)
            /\ run_batches' = run_batches \cup {batch_idx}
            /\ rate_reported' = (rate_reported \/ ret.rate_limited)
            /\ UNCHANGED raised_batches
            /\ batch_results' = <<>>
            /\ steps' = <<>>

\* try: database.save_daily_data(batch_data) / except Exception: warn
SaveBars ==
    /\ daily_market_data' = save_daily_data(daily_market_data, batch_data).table
    /\ steps' = Append(steps, "save_bars")

\* batch_results = calculate_batch_chain(batch_data, batch_stocks)
CalcChain(codes) ==
    /\ batch_results' = calculate_batch_chain(batch_data, stock_meta(codes))
    /\ steps' = Append(steps, "calc")

\* if not batch_results.empty: try: save_limit_results / except: warn
SaveResults ==
    /\ limit_analysis_result' =
          save_limit_results(limit_analysis_result, batch_results).table
    /\ steps' = IF batch_results = <<>> THEN steps ELSE Append(steps, "save_results")

\* _process_batch, [1/3]: the fetch; an empty frame ends the batch as failed
ManagerFetch ==
    /\ pc = "fetch" /\ run_kind \in {"manager", "resume"}
    /\ FetchBatch(batch_codes(stocks, batch_idx, batch_size),
                  BACKFILL_RATE_LIMIT_CALLS_PER_MIN, BACKFILL_RATE_LIMIT_ENABLE)
    /\ pc' = IF batch_data' = <<>> THEN "batch_end" ELSE "save_bars"
    /\ UNCHANGED <<dbVars, cfgVars, stocks, batch_idx, countVars, has_limit_results,
                   halted, outcome, ccVars, fxVars, clVars>>

\* ManagerSaveBars without the try around save_daily_data: a failed write
\* leaves run as an exception
ManagerSaveBarsFatal ==
    /\ pc = "save_bars" /\ run_kind \in {"manager", "resume"}
    /\ SaveBars
    /\ IF save_daily_data(daily_market_data, batch_data).raised
       THEN EndRun("raised")
       ELSE pc' = "calc" /\ UNCHANGED outcome
    /\ UNCHANGED <<limit_analysis_result, fetch_progress, cfgVars, stocks,
                   batchVars, countVars, has_limit_results, callVars, halted,
                   ccVars, fxVars, clVars>>

\* _process_batch, [2/3]
ManagerSaveBars ==
    /\ pc = "save_bars" /\ run_kind \in {"manager", "resume"}
    /\ SaveBars
    /\ pc' = "calc"
    /\ UNCHANGED <<limit_analysis_result, fetch_progress, cfgVars, stocks,
                   batchVars, countVars, has_limit_results, callVars, halted, outcome,
                   ccVars, fxVars, clVars>>

\* _process_batch, [3/3]: the streak engine on the batch's frame
ManagerCalc ==
    /\ pc = "calc" /\ run_kind \in {"manager", "resume"}
    /\ CalcChain(batch_codes(stocks, batch_idx, batch_size))
    /\ pc' = "save_results"
    /\ UNCHANGED <<dbVars, cfgVars, stocks, batch_idx, batch_data, rate_limited,
                   countVars, has_limit_results, callVars, halted, outcome, ccVars, fxVars, clVars>>

ManagerSaveResults ==
    /\ pc = "save_results" /\ run_kind \in {"manager", "resume"}
    /\ SaveResults
    /\ pc' = "batch_end"
    /\ UNCHANGED <<daily_market_data, fetch_progress, cfgVars, stocks, batchVars,
                   countVars, has_limit_results, callVars, halted, outcome, ccVars, fxVars, clVars>>

\* back in run(): count the batch (a batch with an empty frame failed); on
\* rate_limited mark the task and break; else go on with the next batch
ManagerBatchEnd ==
    /\ pc = "batch_end" /\ run_kind \in {"manager", "resume"}
    /\ IF batch_data # <<>>
       THEN success_count' = success_count + 1 /\ UNCHANGED fail_count
       ELSE fail_count' = fail_count + 1 /\ UNCHANGED success_count
    /\ IF rate_limited
       THEN /\ fetch_progress' =
                  update_fetch_progress(fetch_progress, task_id, "rate_limited")
            /\ halted' = "rate"
            /\ pc' = "finish"
            /\ UNCHANGED batch_idx
       ELSE /\ UNCHANGED <<fetch_progress, halted>>
            /\ IF batch_idx + 1 < total_batches(stocks, batch_size)
               THEN batch_idx' = batch_idx + 1 /\ pc' = "fetch"
               ELSE UNCHANGED batch_idx /\ pc' = "finish"
    /\ UNCHANGED <<daily_market_data, limit_analysis_result, cfgVars, stocks,
                   batch_data, rate_limited, batch_results, has_limit_results, callVars,
                   outcome, steps, ccVars, fxVars, clVars>>

\* ManagerProcessRaises without the except of _process_batch and of run: the
\* exception leaves run
ManagerProcessRaisesAbort ==
    /\ run_kind \in {"manager", "resume"} /\ pc \in {"fetch", "calc"}
    /\ raised_batches' = raised_batches \cup {batch_idx}
    /\ run_batches' = run_batches \cup {batch_idx}
    /\ EndRun("raised")
    /\ UNCHANGED <<dbVars, cfgVars, stocks, batchVars, countVars,
                   has_limit_results, run_called, rate_reported, halted, steps,
                   ccVars, fxVars, clVars>>

\* an exception inside _process_batch, in the fetch or in the streak
\* computation (the two saves catch their own): "except Exception: return
\* False, False"; back in run the batch is counted as failed, rate_limited
\* is False whatever the fetch had returned, and the loop goes on
ManagerProcessRaises ==
    /\ run_kind \in {"manager", "resume"} /\ pc \in {"fetch", "calc"}
    /\ raised_batches' = raised_batches \cup {batch_idx}
    /\ run_batches' = run_batches \cup {batch_idx}
    /\ fail_count' = fail_count + 1
    /\ batch_data' = <<>>
    /\ rate_limited' = FALSE
    /\ batch_results' = <<>>
    /\ IF batch_idx + 1 < total_batches(stocks, batch_size)
       THEN batch_idx' = batch_idx + 1 /\ pc' = "fetch"
       ELSE UNCHANGED batch_idx /\ pc' = "finish"
    /\ UNCHANGED <<dbVars, cfgVars, stocks, success_count, has_limit_results,
                   run_called, rate_reported, halted, outcome, steps, ccVars,
                   fxVars, clVars>>

\* where the try of the batch loop of BackfillManager.run stands
InManagerTry ==
    /\ run_kind \in {"manager", "resume"}
    /\ pc \in {"fetch", "save_bars", "calc", "save_results", "batch_end"}

\* except KeyboardInterrupt, inside the try of the batch loop: mark the
\* task interrupted and break
ManagerInterrupt ==
    /\ InManagerTry
    /\ fetch_progress' = update_fetch_progress(fetch_progress, task_id, "interrupted")
    /\ halted' = "interrupt"
    /\ pc' = "finish"
    /\ UNCHANGED <<daily_market_data, limit_analysis_result, cfgVars, stocks,
                   batchVars, countVars, has_limit_results, callVars, outcome, steps,
                   ccVars, fxVars, clVars>>

\* after the loop: self._update_task_status('completed'), and run returns
ManagerFinish ==
    /\ pc = "finish"
    /\ fetch_progress' = update_fetch_progress(fetch_progress, task_id, "completed")
    /\ EndRun("returned")
    /\ UNCHANGED <<daily_market_data, limit_analysis_result, cfgVars, stocks,
                   batchVars, countVars, has_limit_results, callVars, halted, steps,
                   ccVars, fxVars, clVars>>

\* a KeyboardInterrupt anywhere no handler covers leaves the run as an
\* exception; what is committed stays
UnhandledInterrupt ==
    /\ pc # "idle" /\ ~InManagerTry
    /\ halted' = "unhandled"
    /\ EndRun("raised")
    /\ UNCHANGED <<dbVars, cfgVars, stocks, batchVars, countVars, has_limit_results,
                   callVars, steps, ccVars, fxVars, clVars>>

\* the loop "for batch_idx in range(total_batches)" goes on, or ends and the
\* function returns
NextBatch ==
    IF batch_idx + 1 < total_batches(stocks, batch_size)
    THEN batch_idx' = batch_idx + 1 /\ pc' = "fetch" /\ UNCHANGED outcome
    ELSE UNCHANGED batch_idx /\ EndRun("returned")

\* run_full_backfill(start_date, end_date)
StartFullBackfill ==
    /\ pc = "idle" /\ runs < MaxRuns
    /\ \E r \in DateRanges, size \in 1..MaxBatchSize :
          BeginRun("full_backfill", 0, r[1], r[2], size, NoMvp, "none")
    /\ pc' = "init_db"
    /\ outcome' = "none"
    /\ UNCHANGED <<dbVars, ccVars, fxVars, clVars>>

\* stocks = get_stock_list(); if stocks.empty: return; save_stock_meta
FullGetStocks ==
    /\ pc = "get_stocks" /\ run_kind = "full_backfill"
    /\ \/ /\ stocks' = <<>>
          /\ halted' = "universe"
          /\ EndRun("returned")
       \/ /\ stocks' = Universe
          /\ pc' = "fetch"
          /\ UNCHANGED <<halted, outcome>>
    /\ UNCHANGED <<dbVars, cfgVars, batchVars, countVars, has_limit_results,
                   callVars, steps, ccVars, fxVars, clVars>>

\* the fetch of a batch; "if rate_limited: break" comes before anything is
\* done with the frame, and an empty frame goes on to the next batch
FullFetch ==
    /\ pc = "fetch" /\ run_kind = "full_backfill"
    /\ FetchBatch(batch_codes(stocks, batch_idx, batch_size),
                  BACKFILL_RATE_LIMIT_CALLS_PER_MIN, BACKFILL_RATE_LIMIT_ENABLE)
    /\ IF rate_limited'
       THEN halted' = "rate" /\ EndRun("returned") /\ UNCHANGED batch_idx
       ELSE /\ UNCHANGED halted
            /\ IF batch_data' = <<>>
               THEN NextBatch
               ELSE pc' = "save_bars" /\ UNCHANGED <<batch_idx, outcome>>
    /\ UNCHANGED <<dbVars, cfgVars, stocks, countVars, has_limit_results,
                   ccVars, fxVars, clVars>>

FullSaveBars ==
    /\ pc = "save_bars" /\ run_kind = "full_backfill"
    /\ SaveBars
    /\ pc' = "calc"
    /\ UNCHANGED <<limit_analysis_result, fetch_progress, cfgVars, stocks,
                   batchVars, countVars, has_limit_results, callVars, halted,
                   outcome, ccVars, fxVars, clVars>>

FullCalc ==
    /\ pc = "calc" /\ run_kind = "full_backfill"
    /\ CalcChain(batch_codes(stocks, batch_idx, batch_size))
    /\ pc' = "save_results"
    /\ UNCHANGED <<dbVars, cfgVars, stocks, batch_idx, batch_data, rate_limited,
                   countVars, has_limit_results, callVars, halted, outcome,
                   ccVars, fxVars, clVars>>

FullSaveResults ==
    /\ pc = "save_results" /\ run_kind = "full_backfill"
    /\ SaveResults
    /\ NextBatch
    /\ UNCHANGED <<daily_market_data, fetch_progress, cfgVars, stocks, batch_data,
                   rate_limited, batch_results, countVars, has_limit_results,
                   callVars, halted, ccVars, fxVars, clVars>>

(***************************************************************************)
(* run_mvp_pipeline.  Its three fetch modes: by date (no stock limit and   *)
(* TUSHARE_USE_BY_DATE_MODE), batched per instrument, and one fetch of     *)
(* all instruments.                                                        *)
(***************************************************************************)
MvpConfigs == {[limit |-> l, by_date |-> b] : l \in {0, 2}, b \in BOOLEAN}

StartMvp ==
    /\ pc = "idle" /\ runs < MaxRuns
    /\ \E r \in DateRanges, size \in 1..MaxBatchSize, cfg \in MvpConfigs :
          BeginRun("mvp", 0, r[1], r[2], size, cfg, "none")
    /\ pc' = "init_db"
    /\ outcome' = "none"
    /\ UNCHANGED <<dbVars, ccVars, fxVars, clVars>>

\* where run_mvp_pipeline goes once the by-date block is behind it: the
\* batch loop if use_batch, else a single fetch if market_data is empty, else
\* straight to "if limit_results.empty"
MvpModePc(market_data, stock_codes, cfg) ==
    LET use_batch ==
            \/ (market_data = <<>> /\ cfg.limit = 0
                /\ Len(stock_codes) > TUSHARE_MAX_CALLS_PER_MIN)
            \/ (~cfg.by_date /\ cfg.limit = 0)
    IN  IF use_batch THEN "fetch"
        ELSE IF market_data = <<>> THEN "single_fetch"
        ELSE "final"

\* stocks['code'].head(mvp_limit) or all of the list
MvpStockCodes(cfg) ==
    IF cfg.limit > 0 THEN SubSeq(Universe, 1, Min(cfg.limit, Len(Universe)))
    ELSE Universe

MvpGetStocks ==
    /\ pc = "get_stocks" /\ run_kind = "mvp"
    /\ \/ /\ stocks' = <<>>
          /\ halted' = "universe"
          /\ EndRun("returned")
       \/ /\ stocks' = MvpStockCodes(mvp_cfg)
          /\ pc' = IF mvp_cfg.limit = 0 /\ mvp_cfg.by_date
                   THEN "by_date"
                   ELSE MvpModePc(<<>>, stocks', mvp_cfg)
          /\ UNCHANGED <<halted, outcome>>
    /\ UNCHANGED <<dbVars, cfgVars, batchVars, countVars, has_limit_results,
                   callVars, steps, ccVars, fxVars, clVars>>

\* the loop "for trade_date in trade_dates" of
\* fetch_market_data_tushare_by_date: pro.daily(trade_date) answers with the
\* bars of every instrument of the market on that date
RECURSIVE ByDateLoop(_, _, _)
ByDateLoop(date, date_to, resp) ==
    IF date > date_to THEN <<>>
    ELSE (IF resp[date] = "rows"
          THEN [i \in 1..NumStocks |-> MarketBar(i, date)]
          ELSE <<>>)
         \o ByDateLoop(date + 1, date_to, resp)

fetch_market_data_tushare_by_date(date_from, date_to, resp) ==
    ByDateLoop(date_from, date_to, resp)

\* market_data[market_data["code"].isin(set(stock_codes))]
FilterCodes(df, stock_codes) ==
    SelectSeq(df, LAMBDA r : \E i \in 1..Len(stock_codes) : stock_codes[i] = r.code)

MvpFetchByDate ==
    /\ pc = "by_date"
    /\ \E resp \in [start_date..end_date -> {"rows", "empty"}] :
          batch_data' = FilterCodes(
              fetch_market_data_tushare_by_date(start_date, end_date, resp), stocks)
    /\ run_called' = run_called + (end_date - start_date + 1)
    /\ rate_limited' = FALSE
    /\ batch_results' = <<>>
    /\ steps' = <<>>
    /\ pc' = "direct_save"
    /\ UNCHANGED <<dbVars, cfgVars, stocks, batch_idx, countVars,
                   has_limit_results, run_batches, raised_batches, rate_reported,
                   halted, outcome, ccVars, fxVars, clVars>>

\* the by-date block's own write: market_data.to_sql(..., chunksize=...,
\* method='multi') in one transaction; only its "except" goes on to the
\* streak engine
MvpDirectSave ==
    /\ pc = "direct_save"
    /\ LET ins == InsertRows(daily_market_data, batch_data)
       IN  /\ daily_market_data' = ins.table
           /\ pc' = IF ins.raised THEN "except_calc"
                    ELSE MvpModePc(batch_data, stocks, mvp_cfg)
    /\ steps' = Append(steps, "save_bars")
    /\ UNCHANGED <<limit_analysis_result, fetch_progress, cfgVars, stocks,
                   batchVars, countVars, has_limit_results, callVars, halted,
                   outcome, ccVars, fxVars, clVars>>

\* inside "except Exception" of the by-date write: limit_results =
\* calculate_batch_chain(market_data, stocks_subset)
MvpExceptCalc ==
    /\ pc = "except_calc"
    /\ CalcChain(stocks)
    /\ has_limit_results' = TRUE
    /\ pc' = MvpModePc(batch_data, stocks, mvp_cfg)
    /\ UNCHANGED <<dbVars, cfgVars, stocks, batch_idx, batch_data, rate_limited,
                   countVars, callVars, halted, outcome, ccVars, fxVars, clVars>>

\* the batch loop: "if rate_limited: break", "if batch_data.empty: continue"
MvpBatchFetch ==
    /\ pc = "fetch" /\ run_kind = "mvp"
    /\ FetchBatch(batch_codes(stocks, batch_idx, batch_size),
                  TUSHARE_MAX_CALLS_PER_MIN, TRUE)
    /\ IF rate_limited'
       THEN halted' = "rate" /\ EndRun("returned") /\ UNCHANGED batch_idx
       ELSE /\ UNCHANGED halted
            /\ IF batch_data' = <<>>
               THEN NextBatch
               ELSE pc' = "save_bars" /\ UNCHANGED <<batch_idx, outcome>>
    /\ UNCHANGED <<dbVars, cfgVars, stocks, countVars, has_limit_results,
                   ccVars, fxVars, clVars>>

MvpBatchSaveBars ==
    /\ pc = "save_bars" /\ run_kind = "mvp"
    /\ SaveBars
    /\ pc' = "calc"
    /\ UNCHANGED <<limit_analysis_result, fetch_progress, cfgVars, stocks,
                   batchVars, countVars, has_limit_results, callVars, halted,
                   outcome, ccVars, fxVars, clVars>>

MvpBatchCalc ==
    /\ pc = "calc" /\ run_kind = "mvp"
    /\ CalcChain(batch_codes(stocks, batch_idx, batch_size))
    /\ pc' = "save_results"
    /\ UNCHANGED <<dbVars, cfgVars, stocks, batch_idx, batch_data, rate_limited,
                   countVars, has_limit_results, callVars, halted, outcome,
                   ccVars, fxVars, clVars>>

\* the batch's results are saved and appended to limit_results_list; after
\* the last batch the function returns (with or without a summary)
MvpBatchSaveResults ==
    /\ pc = "save_results" /\ run_kind = "mvp"
    /\ SaveResults
    /\ has_limit_results' = TRUE
    /\ NextBatch
    /\ UNCHANGED <<daily_market_data, fetch_progress, cfgVars, stocks, batch_data,
                   rate_limited, batch_results, countVars, callVars, halted,
                   ccVars, fxVars, clVars>>

\* one fetch of all of stock_codes; rate_limited only prints, an empty frame
\* returns
MvpSingleFetch ==
    /\ pc = "single_fetch"
    /\ FetchBatch(stocks, TUSHARE_MAX_CALLS_PER_MIN, TRUE)
    /\ IF batch_data' = <<>>
       THEN EndRun("returned")
       ELSE pc' = "single_save_bars" /\ UNCHANGED outcome
    /\ UNCHANGED <<dbVars, cfgVars, stocks, batch_idx, countVars,
                   has_limit_results, halted, ccVars, fxVars, clVars>>

MvpSingleSaveBars ==
    /\ pc = "single_save_bars"
    /\ SaveBars
    /\ pc' = "single_calc"
    /\ UNCHANGED <<limit_analysis_result, fetch_progress, cfgVars, stocks,
                   batchVars, countVars, has_limit_results, callVars, halted,
                   outcome, ccVars, fxVars, clVars>>

MvpSingleCalc ==
    /\ pc = "single_calc"
    /\ CalcChain(stocks)
    /\ has_limit_results' = TRUE
    /\ pc' = "final"
    /\ UNCHANGED <<dbVars, cfgVars, stocks, batch_idx, batch_data, rate_limited,
                   countVars, callVars, halted, outcome, ccVars, fxVars, clVars>>

\* "if limit_results.empty: return" and the save of the non-batch modes:
\* reading limit_results before any assignment raises UnboundLocalError
MvpFinal ==
    /\ pc = "final"
    /\ IF ~has_limit_results
       THEN EndRun("raised") /\ UNCHANGED <<limit_analysis_result, steps>>
       ELSE SaveResults /\ EndRun("returned")
    /\ UNCHANGED <<daily_market_data, fetch_progress, cfgVars, stocks, batchVars,
                   countVars, has_limit_results, callVars, halted, ccVars, fxVars, clVars>>

Next ==
    \/ StartManager
    \/ StartResume
    \/ StartFullBackfill
    \/ StartMvp
    \/ InitDatabase
    \/ CreateTaskRecord
    \/ ManagerGetStocks
    \/ ManagerSetRunning
    \/ ManagerFetch
    \/ ManagerSaveBars
    \/ ManagerCalc
    \/ ManagerSaveResults
    \/ ManagerBatchEnd
    \/ ManagerProcessRaises
    \/ ManagerInterrupt
    \/ ManagerFinish
    \/ UnhandledInterrupt
    \/ FullGetStocks
    \/ FullFetch
    \/ FullSaveBars
    \/ FullCalc
    \/ FullSaveResults
    \/ MvpGetStocks
    \/ MvpFetchByDate
    \/ MvpDirectSave
    \/ MvpExceptCalc
    \/ MvpBatchFetch
    \/ MvpBatchSaveBars
    \/ MvpBatchCalc
    \/ MvpBatchSaveResults
    \/ MvpSingleFetch
    \/ MvpSingleSaveBars
    \/ MvpSingleCalc
    \/ MvpFinal

Spec == Init /\ [][Next]_vars

(***************************************************************************)
(* C2.  When the rate governor halted BackfillManager.run (a batch's fetch *)
(* reported rate_limited), the task's stored status at the moment run      *)
(* returns is rate_limited.                                                *)
(***************************************************************************)
C2_RateLimitedStatusAtReturn ==
    (/\ pc = "idle" /\ outcome = "returned"
     /\ run_kind = "manager" /\ halted = "rate")
    => fetch_progress[task_id].status = "rate_limited"

(***************************************************************************)
(* C3.  When a KeyboardInterrupt arrived during the batch loop of          *)
(* BackfillManager.run, run caught it and returns, and the task's stored   *)
(* status at that moment is interrupted.                                   *)
(***************************************************************************)
C3_InterruptedStatusAtReturn ==
    (/\ pc = "idle" /\ outcome = "returned"
     /\ run_kind = "manager" /\ halted = "interrupt")
    => fetch_progress[task_id].status = "interrupted"

(***************************************************************************)
(* C4.  A resume of an existing task that is not completed, which no       *)
(* interrupt and no empty instrument list stopped, ran the batch loop from *)
(* batch 0 over the task's own dates and returned.                         *)
(***************************************************************************)
C4_ResumeRerunsFromBatchZero ==
    (/\ pc = "idle" /\ run_kind = "resume"
     /\ resume_found \notin {"unknown", "completed"}
     /\ halted \notin {"interrupt", "unhandled", "universe"})
    => /\ outcome = "returned"
       /\ 0 \in run_batches
       /\ start_date = fetch_progress[task_id].start_date
       /\ end_date = fetch_progress[task_id].end_date

(***************************************************************************)
(* C5.  resume_interrupted_task on an unknown task id, or on a task whose  *)
(* stored status is completed, is over at once: no batch is fetched, no    *)
(* provider call is made, and the task table, the stored bars and the      *)
(* stored streak records are what they were.                               *)
(***************************************************************************)
C5_ResumeNoOp ==
    [][(/\ pc = "idle"
        /\ runs' = runs + 1
        /\ run_kind' = "resume"
        /\ \/ task_id' \notin DOMAIN fetch_progress
           \/ fetch_progress[task_id'].status = "completed")
       => /\ pc' = "idle"
          /\ outcome' = "returned"
          /\ run_batches' = {}
          /\ run_called' = 0
          /\ fetch_progress' = fetch_progress
          /\ daily_market_data' = daily_market_data
          /\ limit_analysis_result' = limit_analysis_result]_vars

\* a resume of a completed task over a storage that holds bars and records
\* dated before DATA_PRUNE_BEFORE_DATE, which a run would have deleted
C5_Witness ==
    /\ pc = "idle" /\ run_kind = "resume" /\ resume_found = "completed"
    /\ outcome = "returned"
    /\ run_batches = {}
    /\ \E r \in BagToSet(daily_market_data) : r.date < DATA_PRUNE_BEFORE_DATE
    /\ \E r \in BagToSet(limit_analysis_result) : r.date < DATA_PRUNE_BEFORE_DATE

(***************************************************************************)
(* C7.  During one run of BackfillManager.run or run_full_backfill with    *)
(* the governor enabled, the provider calls made over all of the run's     *)
(* batches never exceed max_calls.                                         *)
(***************************************************************************)
C7_RunWithinBudget ==
    (BACKFILL_RATE_LIMIT_ENABLE /\ run_kind \in {"manager", "resume", "full_backfill"})
    => run_called <= BACKFILL_RATE_LIMIT_CALLS_PER_MIN

(***************************************************************************)
(* C8.  Between runs, every stored streak record is the row the streak     *)
(* engine emits for its date when all stored bars of its instrument are    *)
(* replayed in ascending date order.                                       *)
(***************************************************************************)
RECURSIVE SeqByDate(_)
SeqByDate(S) ==
    IF S = {} THEN <<>>
    ELSE LET r == CHOOSE x \in S : \A y \in S : x.date <= y.date
         IN  <<r>> \o SeqByDate(S \ {r})

Replay(code) ==
    calculate_single_stock_chain(
        SeqByDate({r \in BagToSet(daily_market_data) : r.code = code}),
        code, stock_limit_ratio(code))

C8_StoredEqualsReplay ==
    pc = "idle" =>
        \A r \in BagToSet(limit_analysis_result) :
            \E i \in 1..Len(Replay(r.code)) : Replay(r.code)[i] = r

(***************************************************************************)
(* C9.  Whatever the runs save, the bar table and the streak record table  *)
(* each hold one row per stored (date, code), and a row whose key stays    *)
(* stored over a step stays the row first stored: an insert of an existing *)
(* key changes nothing of it.                                              *)
(***************************************************************************)
OneRowPerKey(table) == \A k \in Keys(table) : RowCount(table, k) = 1

FirstStoredKept(before, after) ==
    \A r \in BagToSet(before) : KeyOf(r) \in Keys(after) => r \in BagToSet(after)

C9_OneRowPerKey ==
    [][/\ OneRowPerKey(daily_market_data')
       /\ OneRowPerKey(limit_analysis_result')
       /\ FirstStoredKept(daily_market_data, daily_market_data')
       /\ FirstStoredKept(limit_analysis_result, limit_analysis_result')]_vars

\* a batch whose records were saved while the table held, for one of their
\* keys, a record of another run with a different chain_height
C9_Witness ==
    /\ steps = <<"save_bars", "calc", "save_results">>
    /\ \E i \in 1..Len(batch_results) :
          /\ KeyOf(batch_results[i]) \in Keys(limit_analysis_result)
          /\ batch_results[i] \notin BagToSet(limit_analysis_result)
    /\ \E i \in 1..Len(batch_data) :
          batch_data[i] \in BagToSet(daily_market_data)

(***************************************************************************)
(* C10.  In every ingestion mode, a run that no interrupt stopped and      *)
(* whose last fetch gave a non-empty frame without a rate-limit halt has   *)
(* attempted the bar write, then run the streak engine, then attempted the *)
(* record write, in that order, also when the bar write succeeded.         *)
(***************************************************************************)
C10_PersistCalcPersist ==
    (/\ pc = "idle" /\ run_kind # "none"
     /\ halted \notin {"interrupt", "unhandled", "universe"}
     /\ batch_data # <<>> /\ ~rate_limited)
    => steps = <<"save_bars", "calc", "save_results">>

(***************************************************************************)
(* C11.  In every batched orchestrator, when the run halted on the rate    *)
(* limit and the halting fetch had returned rows of completed calls, those *)
(* rows went through the bar write, the streak engine and the record write *)
(* before the run returned.                                                *)
(***************************************************************************)
C11_RateLimitedRowsPersisted ==
    (/\ pc = "idle" /\ outcome = "returned" /\ halted = "rate"
     /\ rate_limited /\ batch_data # <<>>)
    => steps = <<"save_bars", "calc", "save_results">>

(***************************************************************************)
(* C12.  In every batched orchestrator, once a fetch of the run has        *)
(* reported rate_limited, no later batch is fetched in that run.           *)
(***************************************************************************)
C12_NoFetchAfterRateLimit ==
    [][(pc # "idle" /\ run_batches' # run_batches) => ~rate_reported]_vars

(***************************************************************************)
(* C13.  In BackfillManager.run, when processing a batch raises an         *)
(* exception other than a user interrupt, the batch is counted as failed   *)
(* exactly once and not as successful, no exception leaves run, and the    *)
(* loop goes on with the next batch (or ends after the last); a run that   *)
(* neither the rate limit nor an interrupt stopped has gone through every  *)
(* batch and counted each once.                                            *)
(***************************************************************************)
AllBatches == 0..(total_batches(stocks, batch_size) - 1)

BarWriteFails ==
    pc = "save_bars" /\ save_daily_data(daily_market_data, batch_data).raised

RecordWriteFails ==
    /\ pc = "save_results"
    /\ save_limit_results(limit_analysis_result, batch_results).raised

C14_ConflictNotFatal ==
    [][(/\ run_kind \in {"manager", "resume", "full_backfill"}
        /\ halted' \notin {"interrupt", "unhandled"})
       => /\ BarWriteFails =>
                /\ pc' = "calc" /\ outcome' = "none"
                /\ fail_count' = fail_count
          /\ RecordWriteFails =>
                /\ outcome' # "raised"
                /\ fail_count' = fail_count
                /\ pc' = IF run_kind = "full_backfill"
                         THEN (IF batch_idx + 1 < total_batches(stocks, batch_size)
                               THEN "fetch" ELSE "idle")
                         ELSE "batch_end"
          /\ (pc = "batch_end" /\ steps # <<>>) =>
                /\ success_count' = success_count + 1
                /\ fail_count' = fail_count]_vars

\* a batch of BackfillManager.run whose bar write failed (a bar of the batch
\* is not stored) and which went through the engine and the record write,
\* with batches still to come
C14_Witness ==
    /\ pc = "batch_end" /\ run_kind = "manager"
    /\ steps = <<"save_bars", "calc", "save_results">>
    /\ \E i \in 1..Len(batch_data) : batch_data[i] \notin BagToSet(daily_market_data)
    /\ batch_idx + 1 < total_batches(stocks, batch_size)

(***************************************************************************)
(* C15.  Whenever the task's stored status is completed after              *)
(* BackfillManager.run returned, every batch of the partition of the       *)
(* instrument list was attempted in that run.                              *)
(***************************************************************************)
C15_CompletedMeansAllBatches ==
    (/\ pc = "idle" /\ run_kind = "manager" /\ outcome = "returned"
     /\ fetch_progress[task_id].status = "completed")
    => run_batches = AllBatches

(***************************************************************************)
(* C16.  When get_stock_list returns nothing in BackfillManager.run, no    *)
(* batch is fetched, no bar and no record is written, run returns and the  *)
(* task's stored status is failed; and no task's status becomes failed in  *)
(* any other step.                                                         *)
(***************************************************************************)
C16_FailedOnlyWithoutUniverse ==
    /\ []((run_kind = "manager" /\ halted = "universe")
          => /\ pc = "idle" /\ outcome = "returned"
             /\ fetch_progress[task_id].status = "failed"
             /\ run_batches = {} /\ run_called = 0
             /\ steps = <<>>)
    /\ [][/\ (run_kind = "manager" /\ halted' = "universe" /\ halted # "universe")
             => /\ daily_market_data' = daily_market_data
                /\ limit_analysis_result' = limit_analysis_result
          /\ \A t \in DOMAIN fetch_progress' :
                (/\ fetch_progress'[t].status = "failed"
                 /\ (t \notin DOMAIN fetch_progress
                     \/ fetch_progress[t].status # "failed"))
                => /\ t = task_id /\ pc = "get_stocks"
                   /\ stocks' = <<>> /\ halted' = "universe"]_vars

\* a run without a universe over a storage that holds bars of an earlier run
C16_Witness ==
    /\ pc = "idle" /\ run_kind = "manager" /\ halted = "universe"
    /\ fetch_progress[task_id].status = "failed"
    /\ daily_market_data # EmptyBag
    /\ limit_analysis_result # EmptyBag

(***************************************************************************)
(* C17.  In BackfillManager.run the task row exists with status pending    *)
(* when the instrument universe is about to be fetched, and whenever a     *)
(* batch is about to be fetched the task's stored status is running.       *)
(***************************************************************************)
C17_PendingThenRunning ==
    /\ (run_kind = "manager" /\ pc = "get_stocks") =>
          /\ task_id \in DOMAIN fetch_progress
          /\ fetch_progress[task_id].status = "pending"
    /\ (run_kind \in {"manager", "resume"} /\ pc = "fetch") =>
          /\ task_id \in DOMAIN fetch_progress
          /\ fetch_progress[task_id].status = "running"

\* the second batch of a run about to be fetched, after a first batch whose
\* fetch called the provider
C17_Witness ==
    /\ run_kind = "manager" /\ pc = "fetch"
    /\ batch_idx >= 1 /\ run_called >= 1
    /\ fetch_progress[task_id].status = "running"

(***************************************************************************)
(* C24.  A stored Bar stays stored with the same values through every step *)
(* of every later operation: storage initialisation at the start of a run, *)
(* ingestion of further batches, a new backfill, a resume, an interrupt.   *)
(***************************************************************************)
C24_StoredBarStays ==
    [][\A r \in BagToSet(daily_market_data) :
           r \in BagToSet(daily_market_data')]_vars

(***************************************************************************)
(* C25.  A list of n >= 1 codes under batch size b >= 1 is cut into        *)
(* ceil(n / b) batches, batch k being codes[k*b .. min((k+1)*b, n) - 1]:   *)
(* every batch but the last has b codes, the last has 1 to b, the batches  *)
(* in index order concatenate to the list; and the batches are attempted   *)
(* one at a time in increasing index order.                                *)
(***************************************************************************)
InBatchLoop == pc \in {"fetch", "save_bars", "calc", "save_results", "batch_end"}

CeilDiv(n, b) == CHOOSE t \in 0..n : t * b >= n /\ (t - 1) * b < n

\* codes[k*b .. min((k+1)*b, n) - 1], counting from 0
ExpectedBatch(codes, k, b) ==
    [j \in 1..(Min((k + 1) * b, Len(codes)) - k * b) |-> codes[k * b + j]]

RECURSIVE ConcatBatches(_, _, _)
ConcatBatches(codes, k, b) ==
    IF k >= total_batches(codes, b) THEN <<>>
    ELSE batch_codes(codes, k, b) \o ConcatBatches(codes, k + 1, b)

C25_Partition ==
    (InBatchLoop /\ stocks # <<>>) =>
        LET n == Len(stocks)
            b == batch_size
            tb == total_batches(stocks, b)
        IN  /\ tb = CeilDiv(n, b)
            /\ batch_idx \in 0..(tb - 1)
            /\ \A k \in 0..(tb - 1) :
                  /\ batch_codes(stocks, k, b) = ExpectedBatch(stocks, k, b)
                  /\ k < tb - 1 => Len(batch_codes(stocks, k, b)) = b
                  /\ k = tb - 1 => Len(batch_codes(stocks, k, b)) \in 1..b
            /\ ConcatBatches(stocks, 0, b) = stocks
            /\ \A i \in 1..n :
                  Cardinality({k \in 0..(tb - 1) :
                      \E j \in 1..Len(batch_codes(stocks, k, b)) :
                          batch_codes(stocks, k, b)[j] = stocks[i]}) = 1

\* a step that attempts a batch attempts the batch at batch_idx, which is
\* the number of batches attempted so far, and its frame holds bars of that
\* batch's codes only
C25_Order ==
    (pc = "fetch" /\ run_batches' # run_batches) =>
        /\ batch_idx = Cardinality(run_batches)
        /\ run_batches' = run_batches \cup {batch_idx}
        /\ \A i \in 1..Len(batch_data') :
              \E j \in 1..Len(ExpectedBatch(stocks, batch_idx, batch_size)) :
                  ExpectedBatch(stocks, batch_idx, batch_size)[j] = batch_data'[i].code

C25_BatchPartition == []C25_Partition /\ [][C25_Order]_vars

\* three codes under batch size 2: the second and last batch, of one code,
\* attempted after the first and answered
C25_Witness ==
    /\ InBatchLoop /\ Len(stocks) = 3 /\ batch_size = 2
    /\ batch_idx = 1 /\ run_batches = {0, 1}
    /\ batch_data # <<>>
    /\ \A i \in 1..Len(batch_data) : batch_data[i].code = stocks[3]

(***************************************************************************)
(* C28.  After the bar-persistence step of a batch has run, whether it     *)
(* ended cleanly or with a duplicate-key warning, every bar of the batch   *)
(* is in storage: a bar whose (date, code) was not stored before is stored *)
(* now, even when other bars of the batch were stored already.             *)
(***************************************************************************)
C28_BatchBarsStored ==
    [][(pc = "save_bars" /\ pc' # "save_bars" /\ steps' = Append(steps, "save_bars"))
       => \A i \in 1..Len(batch_data) :
              KeyOf(batch_data[i]) \in Keys(daily_market_data')]_vars

(***************************************************************************)
(* C29.  After any sequence of ingestion runs, re-runs and interrupts,     *)
(* every stored StreakRecord (date, code) has a stored Bar with the same   *)
(* (date, code).                                                           *)
(***************************************************************************)
C29_RecordHasBar == Keys(limit_analysis_result) \subseteq Keys(daily_market_data)

(***************************************************************************)
(* The rate-aware fetch on its own: SpecFetch calls it once on n pending   *)
(* instruments, n <= MaxPending, with max_calls <= MaxCallsArg, and on the *)
(* boundary case of 8 pending calls under max_calls = 5.                   *)
(***************************************************************************)
MaxPending == 4

MaxCallsArg == 3

InitFetch ==
    /\ \/ \E n \in 0..MaxPending :
             /\ fx_codes = [i \in 1..n |-> i]
             /\ fx_resp \in [1..n -> Outcomes]
             /\ fx_max_calls \in 0..MaxCallsArg
          \/ /\ fx_codes = [i \in 1..8 |-> i]
             /\ fx_resp = [i \in 1..8 |-> "rows"]
             /\ fx_max_calls = 5
    /\ fx_enable \in BOOLEAN
    /\ fx_api \in BOOLEAN
    /\ fx_ret = NoFetch
    /\ fx_pc = "ready"
    /\ ChainIdle
    /\ MainIdle
    /\ ClassifyIdle

RunFetch ==
    /\ fx_pc = "ready"
    /\ fx_ret' = fetch_market_data_tushare(fx_codes, fx_resp, fx_api, 1, 1,
                                           fx_max_calls, fx_enable)
    /\ fx_pc' = "done"
    /\ UNCHANGED <<fx_codes, fx_max_calls, fx_enable, fx_api, fx_resp, ccVars,
                   clVars, dbVars, runVars, histVars>>

NextFetch == RunFetch

SpecFetch == InitFetch /\ [][NextFetch]_vars

(***************************************************************************)
(* C6.  With the governor enabled, max_calls = m >= 1 and every provider   *)
(* call returning, a fetch over n pending instruments calls the provider   *)
(* for exactly the first min(n, m) instruments in list order, returns      *)
(* calls_made = min(n, m), and reports rate_limited iff n > m; 8 pending   *)
(* calls under max_calls = 5 give 5 calls and rate_limited.                *)
(***************************************************************************)
C6_FetchBudget ==
    (/\ fx_pc = "done" /\ fx_api /\ fx_enable /\ fx_max_calls >= 1
     /\ \A i \in 1..Len(fx_codes) : fx_resp[i] # "error")
    => LET n == Len(fx_codes)
           k == Min(n, fx_max_calls)
       IN  /\ fx_ret.called = SubSeq(fx_codes, 1, k)
           /\ fx_ret.call_count = k
           /\ fx_ret.rate_limited = (n > fx_max_calls)
           /\ (n = 8 /\ fx_max_calls = 5) =>
                 (fx_ret.call_count = 5 /\ fx_ret.rate_limited
                  /\ Len(fx_ret.called) = 5)

\* a fetch that stopped on the budget with instruments left over
C6_Witness ==
    /\ fx_pc = "done" /\ fx_api /\ fx_enable
    /\ \A i \in 1..Len(fx_codes) : fx_resp[i] # "error"
    /\ fx_max_calls >= 2
    /\ Len(fx_codes) > fx_max_calls
    /\ fx_ret.rate_limited
    /\ fx_ret.call_count = fx_max_calls

(***************************************************************************)
(* C27.  Within one fetch, a provider exception or an empty response for   *)
(* one instrument skips only that instrument: the instruments are          *)
(* attempted in list order with none left out, up to the end of the list   *)
(* or the stop on the budget; the frame returned holds the rows of every   *)
(* attempted instrument that answered with rows; the fetch returns.        *)
(***************************************************************************)
\* the rows of the first k instruments of the list that answered with rows
RECURSIVE AnsweredRows(_, _, _)
AnsweredRows(codes, resp, k) ==
    IF k = 0 THEN <<>>
    ELSE AnsweredRows(codes, resp, k - 1)
         \o (IF resp[k] = "rows" THEN pro_daily(codes[k], 1, 1) ELSE <<>>)

C27_ProviderErrorSkipsOne ==
    (fx_pc = "done" /\ fx_api) =>
        LET k == Len(fx_ret.called)
        IN  /\ k <= Len(fx_codes)
            /\ fx_ret.called = SubSeq(fx_codes, 1, k)
            /\ k < Len(fx_codes) => (fx_enable /\ fx_ret.rate_limited)
            /\ fx_ret.data = AnsweredRows(fx_codes, fx_resp, k)

\* a fetch whose first instrument raised and whose second answered empty,
\* and which still returned the rows of a later one
C27_Witness ==
    /\ fx_pc = "done" /\ fx_api /\ fx_enable
    /\ Len(fx_codes) >= 3
    /\ fx_resp[1] = "error" /\ fx_resp[2] = "empty" /\ fx_resp[3] = "rows"
    /\ Len(fx_ret.called) >= 3
    /\ fx_ret.data # <<>>

(***************************************************************************)
(* C30.  In one fetch with the governor enabled, the number of provider    *)
(* calls attempted never exceeds max_calls, also when some of the calls    *)
(* fail with an exception.                                                 *)
(***************************************************************************)
C30_AttemptsWithinBudget ==
    (fx_pc = "done" /\ fx_api /\ fx_enable) =>
        Len(fx_ret.called) <=
            (IF fx_max_calls = 0 THEN TUSHARE_MAX_CALLS_PER_MIN ELSE fx_max_calls)

(***************************************************************************)
(* The streak engine on its own: SpecChain hands calculate_batch_chain a   *)
(* frame of at most MaxRows rows of ChainCodes x ChainDates, in any row    *)
(* order, or the frame of the self-test of main.py.                        *)
(***************************************************************************)
MaxRows == 3

ChainCodes == {1, 2}

ChainDates == {1, 2, 3}

\* the prices <<open, high, low, close, pre_close>> of one bar with previous
\* close 10.00: closing at the 10% limit, frozen at the limit all day,
\* touching the limit and closing under it, and a bar whose close is missing;
\* and a bar whose previous close is missing, is 0, or is negative
ChainPrices ==
    { <<1000, 1100, 1000, 1100, 1000>>,
      <<1100, 1100, 1100, 1100, 1000>>,
      <<1000, 1100, 1000, 1050, 1000>>,
      <<1000, 1020,  990,  NaN, 1000>>,
      <<1000, 1100, 1000, 1100,  NaN>>,
      <<1000, 1100, 1000, 1100,    0>>,
      <<1000, 1100, 1000, 1050, 0 - 1000>> }

ChainBars ==
    { Bar(d, c, p[1], p[2], p[3], p[4], p[5]) :
          d \in ChainDates, c \in ChainCodes, p \in ChainPrices }

DistinctKeys(df) ==
    \A i, j \in 1..Len(df) :
        (df[i].date = df[j].date /\ df[i].code = df[j].code) => i = j

ChainInputs ==
    UNION { { df \in [1..n -> ChainBars] : DistinctKeys(df) } : n \in 0..MaxRows }

\* test_data of test_algorithms, dates 20240102 .. 20240110 numbered 1 .. 7
test_data ==
    << Bar(1, 1, 1000, 1100, 1000, 1100, 1000),
       Bar(2, 1, 1100, 1210, 1100, 1210, 1100),
       Bar(3, 1, 1210, 1331, 1210, 1331, 1210),
       Bar(4, 1, 1331, 1350, 1300, 1320, 1331),
       Bar(5, 1, 1300, 1430, 1300, 1430, 1300),
       Bar(6, 1, 1430, 1573, 1430, 1573, 1430),
       Bar(7, 1, 1573, 1700, 1550, 1600, 1573) >>

\* stock_meta: a main-board list, and one whose code 2 is a 20% board
ChainMetas == { [c \in ChainCodes |-> 10], [c \in ChainCodes |-> 10 * c] }

InitChain ==
    /\ cc_input \in ChainInputs \cup {test_data}
    /\ cc_meta \in ChainMetas
    /\ cc_out = <<>>
    /\ cc_pc = "ready"
    /\ FetchIdle
    /\ MainIdle
    /\ ClassifyIdle

RunBatchChain ==
    /\ cc_pc = "ready"
    /\ cc_out' = calculate_batch_chain(cc_input, cc_meta)
    /\ cc_pc' = "done"
    /\ UNCHANGED <<cc_input, cc_meta, fxVars, clVars, dbVars, runVars, histVars>>

RunTestAlgorithms ==
    /\ cc_pc = "ready"
    /\ cc_input = test_data
    /\ cc_out' = calculate_single_stock_chain(test_data, 1, 10)
    /\ cc_pc' = "tested"
    /\ UNCHANGED <<cc_input, cc_meta, fxVars, clVars, dbVars, runVars, histVars>>

NextChain == RunBatchChain \/ RunTestAlgorithms

SpecChain == InitChain /\ [][NextChain]_vars

(***************************************************************************)
(* C1.  For every instrument of the frame, with its bars in ascending      *)
(* date order and a counter starting at 0 for that instrument alone, each  *)
(* bar's chain_height is the previous bar's chain_height + 1 if the bar is *)
(* limit-up and 0 otherwise; the engine emits one row per bar; and the     *)
(* self-test frame gives the heights 1,2,3,0,1,2,0.                        *)
(***************************************************************************)
RowsAt(df, date, code) ==
    {i \in 1..Len(df) : df[i].date = date /\ df[i].code = code}

HeightAt(out, date, code) ==
    out[CHOOSE i \in RowsAt(out, date, code) : TRUE].chain_height

PrevHeight(input, out, date, code) ==
    LET earlier == {input[i].date : i \in {j \in 1..Len(input) :
                        input[j].code = code /\ input[j].date < date}}
    IN  IF earlier = {} THEN 0
        ELSE HeightAt(out, CHOOSE d \in earlier : \A e \in earlier : e <= d, code)

C1_ChainRecurrence ==
    /\ cc_pc \in {"done", "tested"} =>
          /\ Len(cc_out) = Len(cc_input)
          /\ \A i \in 1..Len(cc_input) :
                LET b == cc_input[i]
                IN  /\ Cardinality(RowsAt(cc_out, b.date, b.code)) = 1
                    /\ HeightAt(cc_out, b.date, b.code) =
                         IF is_limit_up(b.close, b.pre_close,
                                        LimitRatioOf(cc_meta, b.code))
                         THEN PrevHeight(cc_input, cc_out, b.date, b.code) + 1
                         ELSE 0
    /\ (cc_pc = "tested" \/ (cc_pc = "done" /\ cc_input = test_data /\ cc_meta[1] = 10)) =>
          [i \in 1..Len(cc_out) |-> cc_out[i].chain_height] = <<1, 2, 3, 0, 1, 2, 0>>

\* a frame given out of date order in which instrument 1 is on its second
\* consecutive limit-up while a bar of instrument 2, dated before it, is not
\* limit-up
C1_Witness ==
    /\ cc_pc = "done"
    /\ Len(cc_input) = MaxRows
    /\ cc_input[1].date > cc_input[2].date
    /\ \E i, j \in 1..Len(cc_out) :
          /\ cc_out[i].code = 1 /\ cc_out[i].chain_height = 2
          /\ cc_out[j].code = 2 /\ cc_out[j].chain_height = 0
          /\ cc_out[j].date < cc_out[i].date

(***************************************************************************)
(* C21.  A bar whose close or pre_close is missing, or whose pre_close is  *)
(* not positive, gets the row limit_status 0, chain_height 0, is_fried 0,  *)
(* board_type normal (the engine being total, no error), and resets the    *)
(* counter: a limit-up bar that is the next bar of the instrument after it *)
(* has chain_height 1.                                                     *)
(***************************************************************************)
InvalidBar(b) == b.close = NaN \/ b.pre_close = NaN \/ b.pre_close <= 0

\* input[j] is the bar of input[i]'s instrument that follows it in date order
FollowsInDate(input, i, j) ==
    /\ input[j].code = input[i].code
    /\ input[j].date > input[i].date
    /\ \A k \in 1..Len(input) :
          input[k].code = input[i].code =>
              ~(input[i].date < input[k].date /\ input[k].date < input[j].date)

C21_InvalidBarResets ==
    cc_pc \in {"done", "tested"} =>
        \A i \in 1..Len(cc_input) :
            LET b == cc_input[i]
            IN  InvalidBar(b) =>
                  /\ Cardinality(RowsAt(cc_out, b.date, b.code)) = 1
                  /\ \A k \in RowsAt(cc_out, b.date, b.code) :
                        /\ cc_out[k].limit_status = 0
                        /\ cc_out[k].chain_height = 0
                        /\ cc_out[k].is_fried = 0
                        /\ cc_out[k].board_type = "normal"
                  /\ \A j \in 1..Len(cc_input) :
                        (/\ FollowsInDate(cc_input, i, j)
                         /\ is_limit_up(cc_input[j].close, cc_input[j].pre_close,
                                        LimitRatioOf(cc_meta, cc_input[j].code)))
                        => HeightAt(cc_out, cc_input[j].date, cc_input[j].code) = 1

\* an instrument with a limit-up bar, then a bar whose previous close is
\* missing or not positive, then a limit-up bar of height 1
C21_Witness ==
    /\ cc_pc = "done"
    /\ \E h, i, j \in 1..Len(cc_input) :
          /\ FollowsInDate(cc_input, h, i) /\ FollowsInDate(cc_input, i, j)
          /\ HeightAt(cc_out, cc_input[h].date, cc_input[h].code) = 1
          /\ cc_input[i].close # NaN /\ InvalidBar(cc_input[i])
          /\ HeightAt(cc_out, cc_input[i].date, cc_input[i].code) = 0
          /\ HeightAt(cc_out, cc_input[j].date, cc_input[j].code) = 1

(***************************************************************************)
(* C22.  Every row the engine emits has: limit_status and is_fried never   *)
(* both 1; chain_height >= 1 iff limit_status = 1; board_type fried iff    *)
(* is_fried = 1; board_type yizi only if limit_status = 1; and with both   *)
(* flags 0, board_type normal and chain_height 0.                          *)
(***************************************************************************)
C22_RecordInvariants ==
    cc_pc \in {"done", "tested"} =>
        \A k \in 1..Len(cc_out) :
            LET r == cc_out[k]
            IN  /\ r.limit_status \in {0, 1} /\ r.is_fried \in {0, 1}
                /\ ~(r.limit_status = 1 /\ r.is_fried = 1)
                /\ (r.chain_height >= 1) <=> (r.limit_status = 1)
                /\ (r.board_type = "fried") <=> (r.is_fried = 1)
                /\ (r.board_type = "yizi") => (r.limit_status = 1)
                /\ (r.limit_status = 0 /\ r.is_fried = 0) =>
                       (r.board_type = "normal" /\ r.chain_height = 0)

\* an output holding a fried row, a one-word row and a plain limit-up row
C22_Witness ==
    /\ cc_pc = "done"
    /\ \E i, j, k \in 1..Len(cc_out) :
          /\ cc_out[i].is_fried = 1 /\ cc_out[i].board_type = "fried"
          /\ cc_out[j].limit_status = 1 /\ cc_out[j].board_type = "yizi"
          /\ cc_out[k].limit_status = 1 /\ cc_out[k].board_type = "normal"

(***************************************************************************)
(* C26.  The engine's output depends on the set of an instrument's bars,   *)
(* not on the order of the input rows: with distinct dates per instrument, *)
(* every permutation of the rows gives the same row per (date, code), and  *)
(* running the engine again on the same frame gives the same output.       *)
(***************************************************************************)
\* the orders tried for a frame of n rows: every permutation of a frame of
\* at most MaxRows rows, the reversal of a longer one
RowOrders(n) ==
    IF n <= MaxRows
    THEN {f \in [1..n -> 1..n] : \A i, j \in 1..n : f[i] = f[j] => i = j}
    ELSE {[i \in 1..n |-> n + 1 - i]}

RecordsOf(out) == {out[i] : i \in 1..Len(out)}

C26_OrderIndependent ==
    cc_pc = "done" =>
        /\ \A f \in RowOrders(Len(cc_input)) :
              LET permuted == [i \in 1..Len(cc_input) |-> cc_input[f[i]]]
              IN  /\ RecordsOf(calculate_batch_chain(permuted, cc_meta)) =
                        RecordsOf(cc_out)
                  /\ Len(calculate_batch_chain(permuted, cc_meta)) = Len(cc_out)
        /\ calculate_batch_chain(cc_input, cc_meta) = cc_out

\* three bars of one instrument given in descending date order, the output
\* reaching height 2
C26_Witness ==
    /\ cc_pc = "done"
    /\ Len(cc_input) = 3
    /\ cc_input[1].code = cc_input[2].code /\ cc_input[2].code = cc_input[3].code
    /\ cc_input[1].date > cc_input[2].date /\ cc_input[2].date > cc_input[3].date
    /\ \E i \in 1..Len(cc_out) : cc_out[i].chain_height = 2
    /\ \E i \in 1..Len(cc_out) : cc_out[i].chain_height = 0

(***************************************************************************)
(* The classifier on its own: SpecClassify hands one bar to is_limit_up,   *)
(* is_yizi_board, is_fried_board and to the streak engine.  The bar's      *)
(* prices lie around the limit price of a previous close of 5, 10 or 100   *)
(* yuan under a 10% or 20% limit, or are missing; the previous close may   *)
(* also be missing or 0.                                                   *)
(***************************************************************************)
ClassifyOffsets == {0 - 15, 0 - 5, 0 - 2, 0 - 1, 0, 1, 2, 20}

ClassifyPreCloses == {500, 1000, 10000}

ClassifyRatios == {10, 20}

\* the prices, in 1/100 yuan, tried around the limit price of (p, r)
PricesAround(p, r) ==
    {NaN} \cup {(limit_price(p, r) \div 100) + o : o \in ClassifyOffsets}

ClassifyInputs ==
    UNION { { [open |-> o, high |-> h, low |-> l, close |-> c,
               pre_close |-> p, limit_ratio |-> r] :
                 o \in PricesAround(p, r), h \in PricesAround(p, r),
                 l \in PricesAround(p, r), c \in PricesAround(p, r) } :
            p \in ClassifyPreCloses, r \in ClassifyRatios }
    \cup { [open |-> o, high |-> h, low |-> l, close |-> c,
            pre_close |-> p, limit_ratio |-> 10] :
              o \in {NaN, 1100}, h \in {NaN, 1100}, l \in {NaN, 1100},
              c \in {NaN, 1100}, p \in {NaN, 0} }

InitClassify ==
    /\ cl_in \in ClassifyInputs
    /\ cl_out = NoClassify
    /\ cl_pc = "ready"
    /\ MainIdle
    /\ ChainIdle
    /\ FetchIdle

RunClassify ==
    /\ cl_pc = "ready"
    /\ cl_out' =
          [limit_up |-> is_limit_up(cl_in.close, cl_in.pre_close, cl_in.limit_ratio),
           yizi |-> is_yizi_board(cl_in.open, cl_in.high, cl_in.low, cl_in.close,
                                  cl_in.pre_close, cl_in.limit_ratio),
           fried |-> is_fried_board(cl_in.high, cl_in.close, cl_in.pre_close,
                                    cl_in.limit_ratio),
           rows |-> calculate_single_stock_chain(
                        <<Bar(1, 1, cl_in.open, cl_in.high, cl_in.low, cl_in.close,
                              cl_in.pre_close)>>, 1, cl_in.limit_ratio)]
    /\ cl_pc' = "done"
    /\ UNCHANGED <<cl_in, ccVars, fxVars, dbVars, runVars, histVars>>

NextClassify == RunClassify

SpecClassify == InitClassify /\ [][NextClassify]_vars

\* limit_price * (1 - eps) <= price, both sides times 10^7, eps the fixed
\* fraction LIMIT_TOLERANCE
AtLeastLimitLessEps(price, pre_close, limit_ratio) ==
    price * 100000 >= pre_close * (100 + limit_ratio) * (1000 - LIMIT_TOLERANCE)

(***************************************************************************)
(* C18.  is_limit_up(close, pre_close, ratio) is true iff close and        *)
(* pre_close are present, pre_close > 0 and close >= pre_close * (1 +      *)
(* ratio) * (1 - LIMIT_TOLERANCE), and false in every other case.          *)
(***************************************************************************)
C18_LimitUpIff ==
    cl_pc = "done" =>
        (cl_out.limit_up <=>
            /\ cl_in.close # NaN /\ cl_in.pre_close # NaN
            /\ cl_in.pre_close > 0
            /\ AtLeastLimitLessEps(cl_in.close, cl_in.pre_close, cl_in.limit_ratio))

\* a close under the limit price and within the tolerance of it
C18_Witness ==
    /\ cl_pc = "done" /\ cl_out.limit_up
    /\ cl_in.close * 100 < limit_price(cl_in.pre_close, cl_in.limit_ratio)

(***************************************************************************)
(* C19.  is_fried_board(high, close, pre_close, ratio) is true iff high >= *)
(* limit_price * (1 - eps) and close < limit_price * (1 - eps), with eps   *)
(* the same fraction LIMIT_TOLERANCE at every price level.                 *)
(***************************************************************************)
C19_FriedIff ==
    (/\ cl_pc = "done"
     /\ cl_in.high # NaN /\ cl_in.close # NaN /\ cl_in.pre_close > 0)
    => (cl_out.fried <=>
           /\ AtLeastLimitLessEps(cl_in.high, cl_in.pre_close, cl_in.limit_ratio)
           /\ ~AtLeastLimitLessEps(cl_in.close, cl_in.pre_close, cl_in.limit_ratio))

(***************************************************************************)
(* C20.  For every limit-up bar the streak engine emits board_type yizi    *)
(* iff open, high, low and close are each within limit_price *             *)
(* LIMIT_TOLERANCE of limit_price, and normal otherwise: open = high = low *)
(* = close = 11.00 after a close of 10.00 under a 10% limit is yizi, and   *)
(* the same bar with high = 11.20 is normal.                               *)
(***************************************************************************)
WithinEpsOfLimit(price, pre_close, limit_ratio) ==
    /\ price # NaN
    /\ Abs(price * 100 - pre_close * (100 + limit_ratio)) * 1000
          <= pre_close * (100 + limit_ratio) * LIMIT_TOLERANCE

OneWordBar ==
    [open |-> 1100, high |-> 1100, low |-> 1100, close |-> 1100,
     pre_close |-> 1000, limit_ratio |-> 10]

C20_YiziIff ==
    cl_pc = "done" =>
        /\ Len(cl_out.rows) = 1
        /\ cl_out.rows[1].limit_status = 1 =>
              cl_out.rows[1].board_type =
                 IF \A price \in {cl_in.open, cl_in.high, cl_in.low, cl_in.close} :
                        WithinEpsOfLimit(price, cl_in.pre_close, cl_in.limit_ratio)
                 THEN "yizi" ELSE "normal"
        /\ cl_in = OneWordBar =>
              (cl_out.rows[1].limit_status = 1 /\ cl_out.rows[1].board_type = "yizi")
        /\ cl_in = [OneWordBar EXCEPT !.high = 1120] =>
              (cl_out.rows[1].limit_status = 1 /\ cl_out.rows[1].board_type = "normal")

\* the one-word bar with its high moved to 11.20: limit-up, and normal
C20_Witness ==
    /\ cl_pc = "done"
    /\ cl_in = [OneWordBar EXCEPT !.high = 1120]
    /\ cl_out.rows[1].limit_status = 1
    /\ cl_out.rows[1].board_type = "normal"

(***************************************************************************)
(* C23.  is_limit_up is monotonic in close: with pre_close and ratio       *)
(* fixed, if the bar's close triggers limit-up then every present close    *)
(* that is at least as high triggers it too.                               *)
(***************************************************************************)
C23_LimitUpMonotonic ==
    (cl_pc = "done" /\ cl_out.limit_up) =>
        \A close1 \in PricesAround(cl_in.pre_close, cl_in.limit_ratio) \ {NaN} :
            close1 >= cl_in.close =>
                is_limit_up(close1, cl_in.pre_close, cl_in.limit_ratio)

\* the lowest close tried that triggers limit-up, with higher closes above it
C23_Witness ==
    /\ cl_pc = "done" /\ cl_out.limit_up
    /\ \E close0, close1 \in PricesAround(cl_in.pre_close, cl_in.limit_ratio) \ {NaN} :
          /\ close0 < cl_in.close /\ cl_in.close < close1
          /\ ~AtLeastLimitLessEps(close0, cl_in.pre_close, cl_in.limit_ratio)
          /\ close1 * 100 > limit_price(cl_in.pre_close, cl_in.limit_ratio)

====
